---------------------------- MODULE Spec2Model ----------------------------
(***************************************************************************)
(* A model of the sharded, two-generation cache table of cache2go:         *)
(*   - CacheTable.Add and CacheTable.Value (src/cachetable.go), step by    *)
(*     step: neither takes the table lock, so every read of switchMask,    *)
(*     every counter update, every shard access and every append to a      *)
(*     block list is a step of its own that interleaves with the others;   *)
(*   - the maintenance goroutine started by Cache (src/cache.go): the      *)
(*     select, the cleanup branch and the rebuild branch, statement by     *)
(*     statement;                                                          *)
(*   - the registry's get-or-create (Cache itself), under RegistrySpec.    *)
(*                                                                         *)
(* Time is counted in cleanup intervals.  The clock advances only while no *)
(* call is in progress and the maintenance goroutine waits in its select   *)
(* with no tick left to serve: calls and cycles are short compared with a  *)
(* cleanup interval; the table is followed while that goroutine runs and,  *)
(* once it has returned, at the time it returned.  Time 0 is the first     *)
(* tick of the cleanup ticker, one interval after the construction of a    *)
(* table nobody has called yet.                                            *)
(***************************************************************************)
EXTENDS Integers, Sequences, FiniteSets, TLC

\* ------------------------------------------------------------ bounds
NumCallers == 1
NumKeys == 1
MaxAdds == 2
MaxTime == 3
LongSpan == 3
NumAdders == 2
MaxPending == 2
NumClients == 3
NumNames == 2

\* ------------------------------------------------- program constants
ShardNum == 2
CleanInterval == 1
RebuildInterval == 3
NormalMask == 0
L1Busy == 2
L2Busy == 4

Callers == 1..NumCallers
Keys == 1..NumKeys
Clients == 1..NumClients
Names == 1..NumNames
LifeSpans == {1, LongSpan}
ShardIdx == 0..(ShardNum - 1)
shardMask == ShardNum - 1

\* ---------------------------------------------------- pure functions
RECURSIVE BitAnd(_, _)
BitAnd(a, b) ==
    IF a = 0 \/ b = 0 THEN 0
    ELSE (IF a % 2 = 1 /\ b % 2 = 1 THEN 1 ELSE 0) + 2 * BitAnd(a \div 2, b \div 2)

\* The hasher: deterministic, the same key always gives the same hash.
Sum64(key) == (key * 31 + 7) % 256

NoItem == [data |-> 0, key |-> 0, createdOn |-> 0, lifeSpan |-> 0, hashedKey |-> 0]

\* key, lifeSpan and data as given, createdOn the time of the call, the hash
\* computed once
NewCacheItem(key, lifeSpan, data, t) ==
    [data |-> data, key |-> key, createdOn |-> t, lifeSpan |-> lifeSpan,
     hashedKey |-> Sum64(key)]

ShardOf(item) == BitAnd(item.hashedKey, shardMask)
ShardOfKey(key) == BitAnd(Sum64(key), shardMask)

\* The sweep's test: now.Sub(r.createdOn).Seconds() > r.lifeSpan.Seconds()
SweepExpired(item, t) == t - item.createdOn > item.lifeSpan

\* The rebuild's test for keeping an entry
RebuildKeeps(item, t) == t - item.createdOn < item.lifeSpan

EmptyShard == [k \in Keys |-> NoItem]
EmptyShards == [i \in ShardIdx |-> EmptyShard]

\* m[item.key] = item in the item's shard
ShardPut(shards, item) ==
    [shards EXCEPT ![ShardOf(item)][item.key] = item]

\* delete(m, item.key) in the item's shard
ShardDelete(shards, item) ==
    [shards EXCEPT ![ShardOf(item)][item.key] = NoItem]

\* r, ok := m[key] in the key's shard (NoItem: not ok)
ShardGet(shards, key) == shards[ShardOfKey(key)][key]

\* The entries of one shard the sweep collects, in key order
RECURSIVE CollectExpired(_, _, _)
CollectExpired(m, t, k) ==
    IF k > NumKeys THEN <<>>
    ELSE (IF m[k] # NoItem /\ SweepExpired(m[k], t) THEN <<m[k]>> ELSE <<>>)
         \o CollectExpired(m, t, k + 1)

\* nm := the entries of m the rebuild keeps
RebuiltShard(m, t) ==
    [k \in Keys |-> IF m[k] # NoItem /\ RebuildKeeps(m[k], t) THEN m[k] ELSE NoItem]

VARIABLES
    \* CacheTable
    switchMask, L1Shards, L2Shards, l1BlockChan, l2BlockChan, l1Mask, l2Mask,
    tableLock,
    \* the clock, the two tickers and the context
    now, tickPending, rebuildPending, cancelled,
    \* the maintenance goroutine: position and locals
    mpc, cycleNow, deleteList, scanIdx, rangeList,
    \* the callers: position and locals
    pc, item, did1, did2, vkey, vmode, res,
    \* history: payloads handed out (every Add is given a payload of its own),
    \* the last Add returned per key, and what a Value may expect
    nextData, last, expect, overlap,
    \* history: the rebuild under way began with both block lists empty and
    \* no Add in progress
    fromEmpty,
    \* the registry: the map and its lock, the callers of Cache and their
    \* locals, and the history: tables constructed, maintenance goroutines
    \* started, tables handed out
    cache, mutex, rpc, rname, rt, tables, constructed, started, given

tableVars == <<switchMask, L1Shards, L2Shards, l1BlockChan, l2BlockChan,
               l1Mask, l2Mask, tableLock>>
clockVars == <<now, tickPending, rebuildPending, cancelled>>
maintVars == <<mpc, cycleNow, deleteList, scanIdx, rangeList>>
callerVars == <<pc, item, did1, did2, vkey, vmode, res>>
histVars == <<nextData, last, expect, overlap, fromEmpty>>
regVars == <<cache, mutex, rpc, rname, rt, tables, constructed, started, given>>
restVars == <<callerVars, regVars>>

NoExpect == [item |-> NoItem, div |-> 0]

\* The table as constructed, with the callers C idle
TableInitOf(C) ==
    /\ switchMask = NormalMask
    /\ L1Shards = EmptyShards
    /\ L2Shards = EmptyShards
    /\ l1BlockChan = <<>>
    /\ l2BlockChan = <<>>
    /\ l1Mask = 0
    /\ l2Mask = 0
    /\ tableLock = FALSE
    /\ now = 0
    /\ tickPending = TRUE
    /\ rebuildPending = FALSE
    /\ cancelled = FALSE
    /\ mpc = "select"
    /\ cycleNow = 0
    /\ deleteList = <<>>
    /\ scanIdx = 0
    /\ rangeList = <<>>
    /\ pc = [c \in C |-> "idle"]
    /\ item = [c \in C |-> NoItem]
    /\ did1 = [c \in C |-> FALSE]
    /\ did2 = [c \in C |-> FALSE]
    /\ vkey = [c \in C |-> 0]
    /\ vmode = [c \in C |-> 0]
    /\ res = [c \in C |-> NoItem]
    /\ nextData = 1
    /\ last = [k \in Keys |-> NoExpect]
    /\ expect = [c \in C |-> NoExpect]
    /\ overlap = [c \in C |-> FALSE]
    /\ fromEmpty = FALSE

TableInit == TableInitOf(Callers)

\* No caller of Cache is at work
RegIdle ==
    /\ mutex = 0
    /\ rpc = [r \in Clients |-> "idle"]
    /\ rname = [r \in Clients |-> 0]
    /\ rt = [r \in Clients |-> 0]

\* The registry of a process that has not called Cache yet
RegEmpty ==
    /\ RegIdle
    /\ cache = [n \in Names |-> 0]
    /\ tables = 0
    /\ constructed = [n \in Names |-> 0]
    /\ started = [n \in Names |-> 0]
    /\ given = [n \in Names |-> {}]

\* The registry after Cache has made the table followed below, under name 1
RegOneTable ==
    /\ RegIdle
    /\ cache = [n \in Names |-> IF n = 1 THEN 1 ELSE 0]
    /\ tables = 1
    /\ constructed = [n \in Names |-> IF n = 1 THEN 1 ELSE 0]
    /\ started = [n \in Names |-> IF n = 1 THEN 1 ELSE 0]
    /\ given = [n \in Names |-> IF n = 1 THEN {1} ELSE {}]

\* ------------------------------------------------------------ callers
InAdd(c) == pc[c] \in {"a_inc1", "a_put1", "a_app1", "a_chk2", "a_inc2", "a_put2",
                       "a_app2", "a_dec2", "a_dec1"}
InValue(c) == pc[c] \in {"v_chk2", "v_l1", "v_l2", "v_l2only", "v_l1only"}

env == <<clockVars, maintVars, regVars>>
valueLocals == <<vkey, vmode, res>>
addLocals == <<item, did1, did2>>

\* Add, lines 79-81: item := NewCacheItem(key, lifeSpan, data), then
\* if table.switchMask != 1<<1
AddCall(c, key, lifeSpan) ==
    /\ pc[c] = "idle"
    /\ nextData <= MaxAdds
    /\ item' = [item EXCEPT ![c] = NewCacheItem(key, lifeSpan, nextData, now)]
    /\ nextData' = nextData + 1
    /\ pc' = [pc EXCEPT ![c] = IF switchMask # L1Busy THEN "a_inc1" ELSE "a_app1"]
    /\ overlap' = [o \in DOMAIN pc |->
                     IF o = c THEN \E p \in DOMAIN pc \ {c} : InAdd(p) /\ item[p].key = key
                     ELSE overlap[o] \/ (InAdd(o) /\ item[o].key = key)]
    /\ expect' = [o \in DOMAIN pc |->
                     IF InValue(o) /\ vkey[o] = key THEN NoExpect ELSE expect[o]]
    /\ UNCHANGED <<tableVars, env, did1, did2, valueLocals, last, fromEmpty>>

\* Add, lines 82-83: atomic.AddInt32(&table.l1Mask, 1) and the deferred -1
AddInc1(c) ==
    /\ pc[c] = "a_inc1"
    /\ l1Mask' = l1Mask + 1
    /\ did1' = [did1 EXCEPT ![c] = TRUE]
    /\ pc' = [pc EXCEPT ![c] = "a_put1"]
    /\ UNCHANGED <<switchMask, L1Shards, L2Shards, l1BlockChan, l2BlockChan, l2Mask,
                   tableLock, env, item, did2, valueLocals, histVars>>

\* A variant of the L1 write that waits for the table lock, as it would if Add
\* took t.RLock()
AddPut1TableLocked(c) ==
    /\ pc[c] = "a_put1"
    /\ ~tableLock
    /\ L1Shards' = ShardPut(L1Shards, item[c])
    /\ pc' = [pc EXCEPT ![c] = "a_chk2"]
    /\ UNCHANGED <<switchMask, L2Shards, l1BlockChan, l2BlockChan, l1Mask, l2Mask,
                   tableLock, env, addLocals, valueLocals, histVars>>

\* Add, lines 84-86: the write into the L1 shard, under the shard's lock
AddPut1(c) ==
    /\ pc[c] = "a_put1"
    /\ L1Shards' = ShardPut(L1Shards, item[c])
    /\ pc' = [pc EXCEPT ![c] = "a_chk2"]
    /\ UNCHANGED <<switchMask, L2Shards, l1BlockChan, l2BlockChan, l1Mask, l2Mask,
                   tableLock, env, addLocals, valueLocals, histVars>>

\* Add, line 88: table.l1BlockChan = append(table.l1BlockChan, item)
AddAppend1(c) ==
    /\ pc[c] = "a_app1"
    /\ l1BlockChan' = Append(l1BlockChan, item[c])
    /\ pc' = [pc EXCEPT ![c] = "a_chk2"]
    /\ UNCHANGED <<switchMask, L1Shards, L2Shards, l2BlockChan, l1Mask, l2Mask,
                   tableLock, env, addLocals, valueLocals, histVars>>

\* Add, line 91: if table.switchMask != 1<<2
AddCheck2(c) ==
    /\ pc[c] = "a_chk2"
    /\ pc' = [pc EXCEPT ![c] = IF switchMask # L2Busy THEN "a_inc2" ELSE "a_app2"]
    /\ UNCHANGED <<tableVars, env, addLocals, valueLocals, histVars>>

\* Add, lines 92-93: atomic.AddInt32(&table.l2Mask, 1) and the deferred -1
AddInc2(c) ==
    /\ pc[c] = "a_inc2"
    /\ l2Mask' = l2Mask + 1
    /\ did2' = [did2 EXCEPT ![c] = TRUE]
    /\ pc' = [pc EXCEPT ![c] = "a_put2"]
    /\ UNCHANGED <<switchMask, L1Shards, L2Shards, l1BlockChan, l2BlockChan, l1Mask,
                   tableLock, env, item, did1, valueLocals, histVars>>

\* Add, lines 94-96: the write into the L2 shard, under the shard's lock
AddPut2(c) ==
    /\ pc[c] = "a_put2"
    /\ L2Shards' = ShardPut(L2Shards, item[c])
    /\ pc' = [pc EXCEPT ![c] = "a_dec2"]
    /\ UNCHANGED <<switchMask, L1Shards, l1BlockChan, l2BlockChan, l1Mask, l2Mask,
                   tableLock, env, addLocals, valueLocals, histVars>>

\* Add, line 98: table.l2BlockChan = append(table.l2BlockChan, item)
AddAppend2(c) ==
    /\ pc[c] = "a_app2"
    /\ l2BlockChan' = Append(l2BlockChan, item[c])
    /\ pc' = [pc EXCEPT ![c] = "a_dec2"]
    /\ UNCHANGED <<switchMask, L1Shards, L2Shards, l1BlockChan, l1Mask, l2Mask,
                   tableLock, env, addLocals, valueLocals, histVars>>

\* Add, line 101, first deferred call to run: atomic.AddInt32(&table.l2Mask, -1)
AddDefer2(c) ==
    /\ pc[c] = "a_dec2"
    /\ l2Mask' = IF did2[c] THEN l2Mask - 1 ELSE l2Mask
    /\ pc' = [pc EXCEPT ![c] = "a_dec1"]
    /\ UNCHANGED <<switchMask, L1Shards, L2Shards, l1BlockChan, l2BlockChan, l1Mask,
                   tableLock, env, addLocals, valueLocals, histVars>>

\* What the history keeps of an Add that returns: its item, and whether one of
\* its two writes was diverted to a block list.  An Add that overlapped
\* another Add of the same key has no place in the order of the writes and
\* is not kept.
Returned(c) ==
    IF overlap[c] THEN NoExpect
    ELSE [item |-> item[c], div |-> IF did1[c] /\ did2[c] THEN 0 ELSE 1]

\* A variant of the return that decrements l1Mask whichever branch the Add
\* took, as it would with the defer placed before the if
AddReturnAlwaysDecrements(c) ==
    /\ pc[c] = "a_dec1"
    /\ l1Mask' = l1Mask - 1
    /\ pc' = [pc EXCEPT ![c] = "idle"]
    /\ last' = [last EXCEPT ![item[c].key] = Returned(c)]
    /\ item' = [item EXCEPT ![c] = NoItem]
    /\ did1' = [did1 EXCEPT ![c] = FALSE]
    /\ did2' = [did2 EXCEPT ![c] = FALSE]
    /\ overlap' = [overlap EXCEPT ![c] = FALSE]
    /\ UNCHANGED <<switchMask, L1Shards, L2Shards, l1BlockChan, l2BlockChan, l2Mask,
                   tableLock, env, valueLocals, nextData, expect, fromEmpty>>

\* Add, line 101, second deferred call: atomic.AddInt32(&table.l1Mask, -1), and
\* the return of the item
AddReturn(c) ==
    /\ pc[c] = "a_dec1"
    /\ l1Mask' = IF did1[c] THEN l1Mask - 1 ELSE l1Mask
    /\ pc' = [pc EXCEPT ![c] = "idle"]
    /\ last' = [last EXCEPT ![item[c].key] = Returned(c)]
    /\ item' = [item EXCEPT ![c] = NoItem]
    /\ did1' = [did1 EXCEPT ![c] = FALSE]
    /\ did2' = [did2 EXCEPT ![c] = FALSE]
    /\ overlap' = [overlap EXCEPT ![c] = FALSE]
    /\ UNCHANGED <<switchMask, L1Shards, L2Shards, l1BlockChan, l2BlockChan, l2Mask,
                   tableLock, env, valueLocals, nextData, expect, fromEmpty>>

\* Value, lines 105-108: the key is hashed, then if table.switchMask == 1>>1.
\* vmode is the mode the call read here; from the second read on (line 134) it
\* is the mode whose branch the call is in.
ValueCall(c, key) ==
    /\ pc[c] = "idle"
    /\ vkey' = [vkey EXCEPT ![c] = key]
    /\ vmode' = [vmode EXCEPT ![c] = switchMask]
    /\ expect' = [expect EXCEPT ![c] =
                     IF \E p \in DOMAIN pc : InAdd(p) /\ item[p].key = key
                     THEN NoExpect ELSE last[key]]
    /\ pc' = [pc EXCEPT ![c] = IF switchMask = NormalMask THEN "v_l1" ELSE "v_chk2"]
    /\ UNCHANGED <<tableVars, env, addLocals, res, nextData, last, overlap,
                   fromEmpty>>

\* Value, line 134: else if table.switchMask == 1<<1 (a second read of the field)
ValueCheck2(c) ==
    /\ pc[c] = "v_chk2"
    /\ pc' = [pc EXCEPT ![c] = IF switchMask = L1Busy THEN "v_l2only" ELSE "v_l1only"]
    /\ vmode' = [vmode EXCEPT ![c] = IF switchMask = L1Busy THEN L1Busy ELSE L2Busy]
    /\ UNCHANGED <<tableVars, env, addLocals, vkey, res, histVars>>

\* Value, lines 110-118: L1 first; a hit is returned
ValueL1(c) ==
    /\ pc[c] = "v_l1"
    /\ IF ShardGet(L1Shards, vkey[c]) # NoItem
       THEN /\ res' = [res EXCEPT ![c] = ShardGet(L1Shards, vkey[c])]
            /\ pc' = [pc EXCEPT ![c] = "v_done"]
       ELSE /\ pc' = [pc EXCEPT ![c] = "v_l2"]
            /\ UNCHANGED res
    /\ UNCHANGED <<tableVars, env, addLocals, vkey, vmode, histVars>>

\* Value, lines 121-132 (L2 after L1) and 136-145 (L2 alone): a hit, or
\* ErrKeyNotFound
ValueL2(c) ==
    /\ pc[c] \in {"v_l2", "v_l2only"}
    /\ res' = [res EXCEPT ![c] = ShardGet(L2Shards, vkey[c])]
    /\ pc' = [pc EXCEPT ![c] = "v_done"]
    /\ UNCHANGED <<tableVars, env, addLocals, vkey, vmode, histVars>>

\* Value, lines 148-159 (L1 alone): a hit, or ErrKeyNotFound
ValueL1Only(c) ==
    /\ pc[c] = "v_l1only"
    /\ res' = [res EXCEPT ![c] = ShardGet(L1Shards, vkey[c])]
    /\ pc' = [pc EXCEPT ![c] = "v_done"]
    /\ UNCHANGED <<tableVars, env, addLocals, vkey, vmode, histVars>>

\* The caller has the result (res = NoItem: ErrKeyNotFound) and goes on
ValueReturn(c) ==
    /\ pc[c] = "v_done"
    /\ pc' = [pc EXCEPT ![c] = "idle"]
    /\ vkey' = [vkey EXCEPT ![c] = 0]
    /\ vmode' = [vmode EXCEPT ![c] = 0]
    /\ res' = [res EXCEPT ![c] = NoItem]
    /\ expect' = [expect EXCEPT ![c] = NoExpect]
    /\ UNCHANGED <<tableVars, env, addLocals, nextData, last, overlap, fromEmpty>>

\* ------------------------------------------- the clock and the context
AllIdle == \A c \in DOMAIN pc : pc[c] = "idle"

\* One cleanup interval passes: the cleanup ticker fires (cache.go line 76),
\* and every RebuildInterval intervals since the construction, which is at
\* time -1, the rebuild ticker does (line 77)
Tick ==
    /\ now < MaxTime
    /\ AllIdle
    /\ mpc = "select"
    /\ ~tickPending
    /\ ~rebuildPending
    /\ now' = now + 1
    /\ tickPending' = ((now + 1) % CleanInterval = 0)
    /\ rebuildPending' = ((now + 2) % RebuildInterval = 0)
    /\ UNCHANGED <<tableVars, cancelled, maintVars, restVars, histVars>>

\* The context is cancelled
Cancel ==
    /\ ~cancelled
    /\ cancelled' = TRUE
    /\ UNCHANGED <<tableVars, now, tickPending, rebuildPending, maintVars, restVars,
                   histVars>>

\* ------------------------------------------ the maintenance goroutine
\* select, lines 80-83: case <-ctx.Done(): the tickers are stopped, return
SelectDone ==
    /\ mpc = "select"
    /\ cancelled
    /\ mpc' = "stopped"
    /\ UNCHANGED <<tableVars, clockVars, cycleNow, deleteList, scanIdx, rangeList,
                   restVars, histVars>>

\* select, lines 84-92: case <-ticker.C: t.Lock(); var deleteList;
\* t.switchMask = 1 << 1; now := time.Now()
SelectTick ==
    /\ mpc = "select"
    /\ tickPending
    /\ tickPending' = FALSE
    /\ tableLock' = TRUE
    /\ deleteList' = <<>>
    /\ switchMask' = L1Busy
    /\ cycleNow' = now
    /\ mpc' = "c_spin1"
    /\ UNCHANGED <<L1Shards, L2Shards, l1BlockChan, l2BlockChan, l1Mask, l2Mask, now,
                   rebuildPending, cancelled, scanIdx, rangeList, restVars,
                   histVars>>

\* A variant of the spin that also leaves on a cancelled context, by returning
\* from the goroutine where it stands
CleanSpin1Cancellable ==
    /\ mpc = "c_spin1"
    /\ IF cancelled
       THEN /\ mpc' = "stopped"
            /\ UNCHANGED scanIdx
       ELSE /\ l1Mask = 0
            /\ scanIdx' = 0
            /\ mpc' = "c_scan1"
    /\ UNCHANGED <<tableVars, clockVars, cycleNow, deleteList, rangeList, restVars,
                   histVars>>

\* lines 98-102: the spin leaves when l1Mask is read as 0
CleanSpin1 ==
    /\ mpc = "c_spin1"
    /\ l1Mask = 0
    /\ scanIdx' = 0
    /\ mpc' = "c_scan1"
    /\ UNCHANGED <<tableVars, clockVars, cycleNow, deleteList, rangeList, restVars,
                   histVars>>

\* lines 106-117: one L1 shard is scanned under its read lock
CleanScan1 ==
    /\ mpc = "c_scan1"
    /\ deleteList' = deleteList \o CollectExpired(L1Shards[scanIdx], cycleNow, 1)
    /\ IF scanIdx + 1 < ShardNum
       THEN scanIdx' = scanIdx + 1 /\ UNCHANGED mpc
       ELSE scanIdx' = 0 /\ mpc' = "c_del1"
    /\ UNCHANGED <<tableVars, clockVars, cycleNow, rangeList, restVars, histVars>>

\* lines 120-124: one collected item's key is deleted from its L1 shard
CleanDelete1 ==
    /\ mpc = "c_del1"
    /\ deleteList # <<>>
    /\ L1Shards' = ShardDelete(L1Shards, Head(deleteList))
    /\ deleteList' = Tail(deleteList)
    /\ UNCHANGED <<switchMask, L2Shards, l1BlockChan, l2BlockChan, l1Mask, l2Mask,
                   tableLock, clockVars, mpc, cycleNow, scanIdx, rangeList, restVars,
                   histVars>>

\* lines 127-130: deleteList is emptied; t.switchMask = 1 << 2
CleanMask2 ==
    /\ mpc = "c_del1"
    /\ deleteList = <<>>
    /\ switchMask' = L2Busy
    /\ mpc' = "c_range1"
    /\ UNCHANGED <<L1Shards, L2Shards, l1BlockChan, l2BlockChan, l1Mask, l2Mask,
                   tableLock, clockVars, cycleNow, deleteList, scanIdx, rangeList,
                   restVars, histVars>>

\* lines 133-134: the range over t.l1BlockChan reads the slice once
CleanRange1 ==
    /\ mpc = "c_range1"
    /\ rangeList' = l1BlockChan
    /\ mpc' = "c_back1"
    /\ UNCHANGED <<tableVars, clockVars, cycleNow, deleteList, scanIdx, restVars,
                   histVars>>

\* lines 136-140: one blocked item is written into its L1 shard
CleanBack1 ==
    /\ mpc = "c_back1"
    /\ rangeList # <<>>
    /\ L1Shards' = ShardPut(L1Shards, Head(rangeList))
    /\ rangeList' = Tail(rangeList)
    /\ UNCHANGED <<switchMask, L2Shards, l1BlockChan, l2BlockChan, l1Mask, l2Mask,
                   tableLock, clockVars, mpc, cycleNow, deleteList, scanIdx, restVars,
                   histVars>>

\* line 144: t.l1BlockChan = make([]*CacheItem, 0, l1Length/2)
CleanReset1 ==
    /\ mpc = "c_back1"
    /\ rangeList = <<>>
    /\ l1BlockChan' = <<>>
    /\ mpc' = "c_spin2"
    /\ UNCHANGED <<switchMask, L1Shards, L2Shards, l2BlockChan, l1Mask, l2Mask,
                   tableLock, clockVars, cycleNow, deleteList, scanIdx, rangeList,
                   restVars, histVars>>

\* lines 148-152: the spin leaves when l2Mask is read as 0
CleanSpin2 ==
    /\ mpc = "c_spin2"
    /\ l2Mask = 0
    /\ scanIdx' = 0
    /\ mpc' = "c_scan2"
    /\ UNCHANGED <<tableVars, clockVars, cycleNow, deleteList, rangeList, restVars,
                   histVars>>

\* lines 156-167: one L2 shard is scanned under its read lock
CleanScan2 ==
    /\ mpc = "c_scan2"
    /\ deleteList' = deleteList \o CollectExpired(L2Shards[scanIdx], cycleNow, 1)
    /\ IF scanIdx + 1 < ShardNum
       THEN scanIdx' = scanIdx + 1 /\ UNCHANGED mpc
       ELSE scanIdx' = 0 /\ mpc' = "c_del2"
    /\ UNCHANGED <<tableVars, clockVars, cycleNow, rangeList, restVars, histVars>>

\* lines 171-175: one collected item's key is deleted from its L2 shard
CleanDelete2 ==
    /\ mpc = "c_del2"
    /\ deleteList # <<>>
    /\ L2Shards' = ShardDelete(L2Shards, Head(deleteList))
    /\ deleteList' = Tail(deleteList)
    /\ UNCHANGED <<switchMask, L1Shards, l1BlockChan, l2BlockChan, l1Mask, l2Mask,
                   tableLock, clockVars, mpc, cycleNow, scanIdx, rangeList, restVars,
                   histVars>>

\* line 179: t.switchMask = 1 >> 1
CleanMask0 ==
    /\ mpc = "c_del2"
    /\ deleteList = <<>>
    /\ switchMask' = NormalMask
    /\ mpc' = "c_range2"
    /\ UNCHANGED <<L1Shards, L2Shards, l1BlockChan, l2BlockChan, l1Mask, l2Mask,
                   tableLock, clockVars, cycleNow, deleteList, scanIdx, rangeList,
                   restVars, histVars>>

\* lines 183-184: the range over t.l2BlockChan reads the slice once
CleanRange2 ==
    /\ mpc = "c_range2"
    /\ rangeList' = l2BlockChan
    /\ mpc' = "c_back2"
    /\ UNCHANGED <<tableVars, clockVars, cycleNow, deleteList, scanIdx, restVars,
                   histVars>>

\* lines 186-190: one blocked item is written into its L2 shard
CleanBack2 ==
    /\ mpc = "c_back2"
    /\ rangeList # <<>>
    /\ L2Shards' = ShardPut(L2Shards, Head(rangeList))
    /\ rangeList' = Tail(rangeList)
    /\ UNCHANGED <<switchMask, L1Shards, l1BlockChan, l2BlockChan, l1Mask, l2Mask,
                   tableLock, clockVars, mpc, cycleNow, deleteList, scanIdx, restVars,
                   histVars>>

\* lines 196-198: t.l2BlockChan = make(...); t.Unlock()
CleanReset2 ==
    /\ mpc = "c_back2"
    /\ rangeList = <<>>
    /\ l2BlockChan' = <<>>
    /\ tableLock' = FALSE
    /\ mpc' = "select"
    /\ UNCHANGED <<switchMask, L1Shards, L2Shards, l1BlockChan, l1Mask, l2Mask,
                   clockVars, cycleNow, deleteList, scanIdx, rangeList, restVars,
                   histVars>>

\* select, lines 201-208: case <-reBuildTicker.C: t.Lock();
\* t.switchMask = 1 << 1; now := time.Now()
SelectRebuild ==
    /\ mpc = "select"
    /\ rebuildPending
    /\ rebuildPending' = FALSE
    /\ tableLock' = TRUE
    /\ switchMask' = L1Busy
    /\ cycleNow' = now
    /\ mpc' = "r_spin1"
    /\ fromEmpty' = (l1BlockChan = <<>> /\ l2BlockChan = <<>> /\ AllIdle)
    /\ UNCHANGED <<L1Shards, L2Shards, l1BlockChan, l2BlockChan, l1Mask, l2Mask, now,
                   tickPending, cancelled, deleteList, scanIdx, rangeList,
                   restVars, nextData, last, expect, overlap>>

\* lines 213-217: the spin leaves when l1Mask is read as 0
RebuildSpin1 ==
    /\ mpc = "r_spin1"
    /\ l1Mask = 0
    /\ scanIdx' = 0
    /\ mpc' = "r_map1"
    /\ UNCHANGED <<tableVars, clockVars, cycleNow, deleteList, rangeList, restVars,
                   histVars>>

\* lines 221-232: one L1 shard's map is rebuilt under its write lock
RebuildMap1 ==
    /\ mpc = "r_map1"
    /\ L1Shards' = [L1Shards EXCEPT ![scanIdx] = RebuiltShard(L1Shards[scanIdx], cycleNow)]
    /\ IF scanIdx + 1 < ShardNum
       THEN scanIdx' = scanIdx + 1 /\ UNCHANGED mpc
       ELSE scanIdx' = 0 /\ mpc' = "r_mask2"
    /\ UNCHANGED <<switchMask, L2Shards, l1BlockChan, l2BlockChan, l1Mask, l2Mask,
                   tableLock, clockVars, cycleNow, deleteList, rangeList, restVars,
                   histVars>>

\* line 236: t.switchMask = 1 << 2
RebuildMask2 ==
    /\ mpc = "r_mask2"
    /\ switchMask' = L2Busy
    /\ mpc' = "r_spin2"
    /\ UNCHANGED <<L1Shards, L2Shards, l1BlockChan, l2BlockChan, l1Mask, l2Mask,
                   tableLock, clockVars, cycleNow, deleteList, scanIdx, rangeList,
                   restVars, histVars>>

\* lines 237-241: the spin leaves when l2Mask is read as 0
RebuildSpin2 ==
    /\ mpc = "r_spin2"
    /\ l2Mask = 0
    /\ scanIdx' = 0
    /\ mpc' = "r_map2"
    /\ UNCHANGED <<tableVars, clockVars, cycleNow, deleteList, rangeList, restVars,
                   histVars>>

\* lines 245-256: one L2 shard's map is rebuilt under its write lock
RebuildMap2 ==
    /\ mpc = "r_map2"
    /\ L2Shards' = [L2Shards EXCEPT ![scanIdx] = RebuiltShard(L2Shards[scanIdx], cycleNow)]
    /\ IF scanIdx + 1 < ShardNum
       THEN scanIdx' = scanIdx + 1 /\ UNCHANGED mpc
       ELSE scanIdx' = 0 /\ mpc' = "r_mask0"
    /\ UNCHANGED <<switchMask, L1Shards, l1BlockChan, l2BlockChan, l1Mask, l2Mask,
                   tableLock, clockVars, cycleNow, deleteList, rangeList, restVars,
                   histVars>>

\* lines 259-265: t.switchMask = 1 >> 1; the forced collection; t.Unlock()
RebuildMask0 ==
    /\ mpc = "r_mask0"
    /\ switchMask' = NormalMask
    /\ tableLock' = FALSE
    /\ mpc' = "select"
    /\ fromEmpty' = FALSE
    /\ UNCHANGED <<L1Shards, L2Shards, l1BlockChan, l2BlockChan, l1Mask, l2Mask,
                   clockVars, cycleNow, deleteList, scanIdx, rangeList, restVars,
                   nextData, last, expect, overlap>>

\* ------------------------------------------------------ specification
vars == <<switchMask, L1Shards, L2Shards, l1BlockChan, l2BlockChan, l1Mask, l2Mask,
          tableLock, now, tickPending, rebuildPending, cancelled, mpc,
          cycleNow, deleteList, scanIdx, rangeList, pc, item, did1, did2, vkey, vmode,
          res,
          nextData, last, expect, overlap, fromEmpty, cache, mutex, rpc, rname, rt, tables,
          constructed, started, given>>

CallerStep(c) ==
    \/ \E key \in Keys, lifeSpan \in LifeSpans : AddCall(c, key, lifeSpan)
    \/ AddInc1(c)
    \/ AddPut1(c)
    \/ AddAppend1(c)
    \/ AddCheck2(c)
    \/ AddInc2(c)
    \/ AddPut2(c)
    \/ AddAppend2(c)
    \/ AddDefer2(c)
    \/ AddReturn(c)
    \/ \E key \in Keys : ValueCall(c, key)
    \/ ValueCheck2(c)
    \/ ValueL1(c)
    \/ ValueL2(c)
    \/ ValueL1Only(c)
    \/ ValueReturn(c)

Cleanup ==
    \/ SelectTick
    \/ CleanSpin1
    \/ CleanScan1
    \/ CleanDelete1
    \/ CleanMask2
    \/ CleanRange1
    \/ CleanBack1
    \/ CleanReset1
    \/ CleanSpin2
    \/ CleanScan2
    \/ CleanDelete2
    \/ CleanMask0
    \/ CleanRange2
    \/ CleanBack2
    \/ CleanReset2

Rebuild ==
    \/ SelectRebuild
    \/ RebuildSpin1
    \/ RebuildMap1
    \/ RebuildMask2
    \/ RebuildSpin2
    \/ RebuildMap2
    \/ RebuildMask0

Init == TableInit /\ RegOneTable

Next ==
    \/ \E c \in Callers : CallerStep(c)
    \/ Cleanup
    \/ Rebuild
    \/ SelectDone
    \/ Tick
    \/ Cancel

Spec == Init /\ [][Next]_vars

\* ---------------------------------------- callers side by side
\* Several goroutines call Add and Value on a table in normal mode, between
\* two ticks: the maintenance goroutine stays in its select.
Adders == 1..NumAdders

\* The steps of Add and Value a call takes in normal mode
DirectStep(c) ==
    \/ \E key \in Keys, lifeSpan \in LifeSpans : AddCall(c, key, lifeSpan)
    \/ AddInc1(c)
    \/ AddPut1(c)
    \/ AddCheck2(c)
    \/ AddInc2(c)
    \/ AddPut2(c)
    \/ AddDefer2(c)
    \/ AddReturn(c)
    \/ \E key \in Keys : ValueCall(c, key)
    \/ ValueL1(c)
    \/ ValueL2(c)
    \/ ValueReturn(c)

AddersInit == TableInitOf(Adders) /\ RegOneTable

AddersNext == \E c \in Adders : DirectStep(c)

AddersSpec == AddersInit /\ [][AddersNext]_vars

\* ---------------------------------------- Adds against one cleanup cycle
\* Several goroutines call Add while the cleanup cycle of the first tick runs.
\* Nothing is expired at that time, so the cycle has nothing to delete.
AddStep(c) ==
    \/ \E key \in Keys, lifeSpan \in LifeSpans : AddCall(c, key, lifeSpan)
    \/ AddInc1(c)
    \/ AddPut1(c)
    \/ AddAppend1(c)
    \/ AddCheck2(c)
    \/ AddInc2(c)
    \/ AddPut2(c)
    \/ AddAppend2(c)
    \/ AddDefer2(c)
    \/ AddReturn(c)

DrainCycle ==
    \/ SelectTick
    \/ CleanSpin1
    \/ CleanScan1
    \/ CleanMask2
    \/ CleanRange1
    \/ CleanBack1
    \/ CleanReset1
    \/ CleanSpin2
    \/ CleanScan2
    \/ CleanMask0
    \/ CleanRange2
    \/ CleanBack2
    \/ CleanReset2

DrainNext ==
    \/ \E c \in Adders : AddStep(c)
    \/ DrainCycle

DrainSpec == AddersInit /\ [][DrainNext]_vars

\* ---------------------------------------- callers that never stop adding
\* Add, lines 79-81, called again and again: the payload is the caller's and
\* the same every time, so the Adds are not numbered and not limited.  No Add
\* is called while a block list holds MaxPending items.
\* An Add that takes the direct branch whatever the mode it reads
AddCallAgainIgnoringMode(c, key, lifeSpan) ==
    /\ pc[c] = "idle"
    /\ Len(l1BlockChan) < MaxPending
    /\ Len(l2BlockChan) < MaxPending
    /\ item' = [item EXCEPT ![c] = NewCacheItem(key, lifeSpan, nextData, now)]
    /\ pc' = [pc EXCEPT ![c] = "a_inc1"]
    /\ overlap' = [o \in DOMAIN pc |->
                     IF o = c THEN \E p \in DOMAIN pc \ {c} : InAdd(p) /\ item[p].key = key
                     ELSE overlap[o] \/ (InAdd(o) /\ item[o].key = key)]
    /\ UNCHANGED <<tableVars, env, did1, did2, valueLocals, nextData, last, expect,
                   fromEmpty>>

AddCallAgain(c, key, lifeSpan) ==
    /\ pc[c] = "idle"
    /\ Len(l1BlockChan) < MaxPending
    /\ Len(l2BlockChan) < MaxPending
    /\ item' = [item EXCEPT ![c] = NewCacheItem(key, lifeSpan, nextData, now)]
    /\ pc' = [pc EXCEPT ![c] = IF switchMask # L1Busy THEN "a_inc1" ELSE "a_app1"]
    /\ overlap' = [o \in DOMAIN pc |->
                     IF o = c THEN \E p \in DOMAIN pc \ {c} : InAdd(p) /\ item[p].key = key
                     ELSE overlap[o] \/ (InAdd(o) /\ item[o].key = key)]
    /\ UNCHANGED <<tableVars, env, did1, did2, valueLocals, nextData, last, expect,
                   fromEmpty>>

AddForever(c) ==
    \/ \E key \in Keys, lifeSpan \in LifeSpans : AddCallAgain(c, key, lifeSpan)
    \/ AddInc1(c)
    \/ AddPut1(c)
    \/ AddAppend1(c)
    \/ AddCheck2(c)
    \/ AddInc2(c)
    \/ AddPut2(c)
    \/ AddAppend2(c)
    \/ AddDefer2(c)
    \/ AddReturn(c)

\* The maintenance goroutine, from the select on
Maintenance == Cleanup \/ Rebuild

LiveNext ==
    \/ \E c \in Callers : AddForever(c)
    \/ Maintenance
    \/ Tick

\* The scheduler is fair to the maintenance goroutine and to every caller, and
\* every caller calls Add again whenever it may
LiveSpec ==
    /\ Init
    /\ [][LiveNext]_vars
    /\ WF_vars(Maintenance)
    /\ \A c \in Callers : WF_vars(AddForever(c))

\* ------------------------------------------------------- the registry
tableSide == <<tableVars, clockVars, maintVars, callerVars, histVars>>

\* cache.go line 50: Cache(ctx, table, shardNum, cleanInterval) is called
CacheCall(r, name) ==
    /\ rpc[r] = "idle"
    /\ rname' = [rname EXCEPT ![r] = name]
    /\ rt' = [rt EXCEPT ![r] = 0]
    /\ rpc' = [rpc EXCEPT ![r] = "read"]
    /\ UNCHANGED <<tableSide, cache, mutex, tables, constructed, started, given>>

\* lines 51-55: mutex.RLock(); t, ok := cache[table]; mutex.RUnlock(); if !ok
CacheRead(r) ==
    /\ rpc[r] = "read"
    /\ mutex = 0
    /\ rt' = [rt EXCEPT ![r] = cache[rname[r]]]
    /\ rpc' = [rpc EXCEPT ![r] = IF cache[rname[r]] # 0 THEN "return" ELSE "lock"]
    /\ UNCHANGED <<tableSide, cache, mutex, rname, tables, constructed, started, given>>

\* line 56: mutex.Lock()
CacheLock(r) ==
    /\ rpc[r] = "lock"
    /\ mutex = 0
    /\ mutex' = r
    /\ rpc' = [rpc EXCEPT ![r] = "create"]
    /\ UNCHANGED <<tableSide, cache, rname, rt, tables, constructed, started, given>>

\* A variant of the creation without the second look at the map under the lock
CacheCreateUnchecked(r) ==
    /\ rpc[r] = "create"
    /\ tables' = tables + 1
    /\ rt' = [rt EXCEPT ![r] = tables + 1]
    /\ constructed' = [constructed EXCEPT ![rname[r]] = @ + 1]
    /\ started' = [started EXCEPT ![rname[r]] = @ + 1]
    /\ cache' = [cache EXCEPT ![rname[r]] = tables + 1]
    /\ rpc' = [rpc EXCEPT ![r] = "unlock"]
    /\ UNCHANGED <<tableSide, mutex, rname, given>>

\* lines 57-272: t, ok = cache[table]; if !ok, the table is constructed, its
\* maintenance goroutine is started and cache[table] = t
CacheCreate(r) ==
    /\ rpc[r] = "create"
    /\ IF cache[rname[r]] # 0
       THEN /\ rt' = [rt EXCEPT ![r] = cache[rname[r]]]
            /\ UNCHANGED <<cache, tables, constructed, started>>
       ELSE /\ tables' = tables + 1
            /\ rt' = [rt EXCEPT ![r] = tables + 1]
            /\ constructed' = [constructed EXCEPT ![rname[r]] = @ + 1]
            /\ started' = [started EXCEPT ![rname[r]] = @ + 1]
            /\ cache' = [cache EXCEPT ![rname[r]] = tables + 1]
    /\ rpc' = [rpc EXCEPT ![r] = "unlock"]
    /\ UNCHANGED <<tableSide, mutex, rname, given>>

\* line 273: mutex.Unlock()
CacheUnlock(r) ==
    /\ rpc[r] = "unlock"
    /\ mutex' = 0
    /\ rpc' = [rpc EXCEPT ![r] = "return"]
    /\ UNCHANGED <<tableSide, cache, rname, rt, tables, constructed, started, given>>

\* line 276: return t
CacheReturn(r) ==
    /\ rpc[r] = "return"
    /\ given' = [given EXCEPT ![rname[r]] = @ \cup {rt[r]}]
    /\ rpc' = [rpc EXCEPT ![r] = "idle"]
    /\ rname' = [rname EXCEPT ![r] = 0]
    /\ rt' = [rt EXCEPT ![r] = 0]
    /\ UNCHANGED <<tableSide, cache, mutex, tables, constructed, started>>

RegInit == TableInit /\ RegEmpty

RegNext ==
    \E r \in Clients :
        \/ \E name \in Names : CacheCall(r, name)
        \/ CacheRead(r)
        \/ CacheLock(r)
        \/ CacheCreate(r)
        \/ CacheUnlock(r)
        \/ CacheReturn(r)

RegistrySpec == RegInit /\ [][RegNext]_vars

\* ------------------------------------------------------------ properties
\* A Value has its result in hand
ValueDone(c) == pc[c] = "v_done"

\* The Value was called after an Add on its key had returned, with no other
\* Add on the key since
AfterAdd(c) == ValueDone(c) /\ expect[c].item # NoItem

\* The time-to-live of the item has not elapsed
Unelapsed(i) == now - i.createdOn < i.lifeSpan

\* The positions where the maintenance goroutine waits or scans inside a cycle
InsideWaits == {"c_spin1", "c_scan1", "c_spin2", "c_scan2", "r_spin1", "r_spin2"}

\* C1: a Value called after an Add on its key has returned, before the
\* time-to-live has elapsed and with no other Add on the key in between,
\* returns the item that Add stored.
RoundTrip ==
    \A c \in Callers :
        (AfterAdd(c) /\ Unelapsed(expect[c].item)) => res[c] = expect[c].item

\* C2: a Value never returns an item whose time-to-live is exceeded at the
\* time of the call.
NoExpiredReturned ==
    \A c \in Callers :
        (ValueDone(c) /\ res[c] # NoItem) => ~SweepExpired(res[c], now)

\* C3: once more than the time-to-live plus one cleanup interval has passed
\* since the last Add on a key, a Value on the key finds nothing.
ExpiredNotFound ==
    \A c \in Callers :
        (AfterAdd(c) /\ now > expect[c].item.createdOn + expect[c].item.lifeSpan
                                  + CleanInterval)
            => res[c] = NoItem

\* C4: after two Adds on a key have returned one after the other, a Value on
\* the key that finds an item finds the one of the later Add.
LatestWriteWins ==
    \A c \in Callers :
        (AfterAdd(c) /\ res[c] # NoItem) => res[c] = expect[c].item

\* C5: an Add that met a drain and went through a pending buffer is not lost:
\* a Value called in normal mode after the Add has returned, before the
\* time-to-live has elapsed, finds an item under the key.
DrainInsertKept ==
    \A c \in Callers :
        (AfterAdd(c) /\ expect[c].div = 1 /\ vmode[c] = NormalMask
            /\ Unelapsed(expect[c].item))
            => res[c] # NoItem

\* C6: from the return of an Add until the time-to-live has elapsed, the key
\* is stored in at least one of the two generations.
Discoverable ==
    \A k \in Keys :
        (last[k].item # NoItem /\ Unelapsed(last[k].item))
            => (ShardGet(L1Shards, k) # NoItem \/ ShardGet(L2Shards, k) # NoItem)

\* C7: a caller is never blocked by the maintenance goroutine: whatever the
\* goroutine is doing, table lock held or not, a call in progress has its next
\* step enabled.
CallersNeverBlocked ==
    \A c \in Callers : pc[c] # "idle" => ENABLED CallerStep(c)

\* An Add is about to write L1 while the goroutine holds the table lock and
\* spins on the Add's own l1Mask count
SpinningOnCaller ==
    /\ tableLock
    /\ mpc = "c_spin1"
    /\ l1Mask > 0
    /\ \E c \in Callers : pc[c] = "a_put1"

\* C8: concurrent calls of Cache with one name construct one table, start one
\* maintenance goroutine and all return that table.
OneTablePerName ==
    \A n \in Names :
        /\ constructed[n] <= 1
        /\ started[n] <= 1
        /\ given[n] \subseteq {cache[n]} \ {0}

\* Two calls for one name are between the locks, one creating the table and
\* the other, having missed it too, waiting for the lock
RacingCreators ==
    \E r1, r2 \in Clients :
        /\ r1 # r2
        /\ rname[r1] = rname[r2]
        /\ rpc[r1] = "unlock"
        /\ rpc[r2] = "lock"
        /\ cache[rname[r1]] # 0

\* C9: when the maintenance goroutine has stopped on a cancelled context the
\* table is in normal mode, with the table lock free.
StoppedInNormalMode ==
    mpc = "stopped" => (switchMask = NormalMask /\ ~tableLock)

\* The goroutine has stopped and an Add that follows writes both generations
\* directly
DirectAfterStop ==
    /\ mpc = "stopped"
    /\ cancelled
    /\ \E c \in Callers : pc[c] = "a_put2" /\ did1[c] /\ did2[c]

\* C10: once the context is cancelled, a goroutine waiting in a spin or amid a
\* scan does nothing more than stop.
CancelStopsWaits ==
    [][(cancelled /\ mpc \in InsideWaits) => mpc' \in {mpc, "stopped"}]_vars

\* The positions where the cleanup scans or deletes from L1, and from L2
L1Work == {"c_scan1", "c_del1"}
L2Work == {"c_scan2", "c_del2"}

\* C11: while the cleanup scans or deletes from L1, after its wait for
\* l1Mask = 0, no Add writes directly into an L1 shard; the same for L2.
QuiescentScan ==
    [][\A c \in Callers :
         /\ mpc \in L1Work => ~(pc[c] = "a_put1" /\ pc'[c] = "a_chk2")
         /\ mpc \in L2Work => ~(pc[c] = "a_put2" /\ pc'[c] = "a_dec2")]_vars

\* C12: the mode never changes directly from L1 being drained (1<<1) to L2
\* being drained (1<<2); a normal mode lies between the two.
NormalBetweenDrains ==
    [][~(switchMask = L1Busy /\ switchMask' = L2Busy)]_vars

\* C13: when the mode leaves L1Busy every item of l1BlockChan has been written
\* into L1 and l1BlockChan is empty; when it leaves L2Busy the same holds of
\* l2BlockChan and L2.
ReintegratedBeforeModeChange ==
    [][/\ (switchMask = L1Busy /\ switchMask' # L1Busy) => l1BlockChan = <<>>
       /\ (switchMask = L2Busy /\ switchMask' # L2Busy) => l2BlockChan = <<>>]_vars

\* C14: a Value looks into L1 and then L2 only when it read the mode as
\* normal, into L2 alone only when it read the mode as L1Busy, into L1 alone
\* only when it read the mode as L2Busy, and what it returns is the entry of
\* the generation it looked into, or nothing.
ReadRouting ==
    [][\A c \in Callers :
         /\ (pc[c] = "idle" /\ pc'[c] = "v_l1") => switchMask = NormalMask
         /\ (pc[c] = "v_chk2" /\ pc'[c] = "v_l2only")
                => L1Busy \in {vmode[c], switchMask}
         /\ (pc[c] = "v_chk2" /\ pc'[c] = "v_l1only")
                => L2Busy \in {vmode[c], switchMask}
         /\ (pc[c] = "v_l1" /\ pc'[c] = "v_done")
                => res'[c] = ShardGet(L1Shards, vkey[c])
         /\ (pc[c] \in {"v_l2", "v_l2only"} /\ pc'[c] = "v_done")
                => res'[c] = ShardGet(L2Shards, vkey[c])
         /\ (pc[c] = "v_l1only" /\ pc'[c] = "v_done")
                => res'[c] = ShardGet(L1Shards, vkey[c])]_vars

\* The generation holds the item or the item of a later Add on its key (the
\* payloads number the Adds)
Kept(shards, i) == ShardGet(shards, i.key).data >= i.data

\* C15: no item appended to a block list is dropped: when the maintenance
\* goroutine replaces a block list by an empty one, every item of the list has
\* been written into the list's generation.
NoAppendDropped ==
    [][/\ (l1BlockChan # <<>> /\ l1BlockChan' = <<>>)
            => \A n \in 1..Len(l1BlockChan) : Kept(L1Shards, l1BlockChan[n])
       /\ (l2BlockChan # <<>> /\ l2BlockChan' = <<>>)
            => \A n \in 1..Len(l2BlockChan) : Kept(L2Shards, l2BlockChan[n])]_vars

\* The positions of the rebuild branch between t.Lock() and t.Unlock()
InRebuild == {"r_spin1", "r_map1", "r_mask2", "r_spin2", "r_map2", "r_mask0"}

\* C16: while a rebuild holds the table lock no Add and no Value takes a step.
RebuildExcludesCallers ==
    [][(mpc \in InRebuild) => (pc' = pc)]_vars

\* What a rebuild of the shard at time t is to leave: the entries that are not
\* expired at t
NonExpiredOf(m, t) ==
    [k \in Keys |-> IF m[k] # NoItem /\ ~SweepExpired(m[k], t) THEN m[k] ELSE NoItem]

\* C17: the rebuild of a shard (the step that moves the rebuild on to the next
\* shard) leaves in it exactly the entries it held that are not expired at the
\* cycle's time; an entry whose age equals its time-to-live stays.
RebuildKeepsNonExpired ==
    [][/\ (mpc = "r_map1" /\ <<mpc, scanIdx>>' # <<mpc, scanIdx>>)
            => L1Shards'[scanIdx] = NonExpiredOf(L1Shards[scanIdx], cycleNow)
       /\ (mpc = "r_map2" /\ <<mpc, scanIdx>>' # <<mpc, scanIdx>>)
            => L2Shards'[scanIdx] = NonExpiredOf(L2Shards[scanIdx], cycleNow)]_vars

\* C18: what Adds appended to the block lists during a rebuild has been written
\* into the generations when the rebuild sets the mode back to normal: a
\* rebuild that began with both lists empty and ends with no Add in progress
\* ends with both lists empty.
RebuildReintegrates ==
    [][(mpc = "r_mask0" /\ mpc' = "select" /\ fromEmpty /\ \A c \in Callers : ~InAdd(c))
          => (l1BlockChan = <<>> /\ l2BlockChan = <<>>)]_vars

\* No cycle is running, the mode is normal and no Add is in progress
AtRest ==
    /\ mpc \in {"select", "stopped"}
    /\ switchMask = NormalMask
    /\ \A c \in DOMAIN pc : ~InAdd(c)

\* C19: at rest the two generations agree: a key with an entry in L1 or L2 that
\* is not expired has the same entry in both.
GenerationsAgree ==
    AtRest =>
        \A k \in Keys :
            ((ShardGet(L1Shards, k) # NoItem /\ ~SweepExpired(ShardGet(L1Shards, k), now))
              \/ (ShardGet(L2Shards, k) # NoItem /\ ~SweepExpired(ShardGet(L2Shards, k), now)))
                => ShardGet(L1Shards, k) = ShardGet(L2Shards, k)

\* The positions where the cleanup deletes what it collected
InDelete == {"c_del1", "c_del2"}

\* C20: the sweep removes only expired entries: an entry that leaves a
\* generation while the cleanup is deleting is expired at the cycle's time.
SweepOnlyExpired ==
    [][(mpc \in InDelete) =>
          \A s \in ShardIdx, k \in Keys :
              /\ (L1Shards[s][k] # NoItem /\ L1Shards'[s][k] = NoItem)
                    => SweepExpired(L1Shards[s][k], cycleNow)
              /\ (L2Shards[s][k] # NoItem /\ L2Shards'[s][k] = NoItem)
                    => SweepExpired(L2Shards[s][k], cycleNow)]_vars

\* The Add has incremented l1Mask and its deferred decrement has not run yet:
\* it is inside its direct write to L1; the same for l2Mask and L2
InsideL1(c) == InAdd(c) /\ did1[c]
InsideL2(c) == did2[c] /\ pc[c] \in {"a_put2", "a_dec2"}

CyclesTerminate ==
    (switchMask = L1Busy) ~> (mpc = "select" /\ switchMask = NormalMask /\ ~tableLock)


\* A cleanup cycle is past its first wait and spins in the second on an Add
\* that arrived during the first part of the cycle and was diverted from L1
HeldAtSecondWait ==
    /\ mpc = "c_spin2"
    /\ tableLock
    /\ l2Mask = 1
    /\ \E c \in DOMAIN pc : pc[c] = "a_put2" /\ ~did1[c]

=============================================================================
